---- MODULE Spec2Model ----
(***************************************************************************)
(* Model of the photo gallery's ingestion pipeline (gallery/models.py) and *)
(* of the admin multi-upload view (gallery/admin.py).                      *)
(*                                                                         *)
(* Python values are records tagged by their type in field t:              *)
(*   [t |-> "none"]                    None                                *)
(*   [t |-> "num", n |-> i]            an int or a float                   *)
(*   [t |-> "str", s |-> <<c, ...>>]   a str, as its characters            *)
(*   [t |-> "bytes", s |-> <<c, ...>>] a bytes object                      *)
(*   [t |-> "rational", num, den]      a PIL IFDRational                   *)
(*   [t |-> "tuple" / "list", items]   a tuple / a list                    *)
(*   [t |-> "dict", pairs]             a dict, as its (key, value) pairs   *)
(*                                     in insertion order                  *)
(* Dict keys are [name |-> "Make"] (a str) or [code |-> 59999] (an int).   *)
(* Angles are kept in arc seconds (3600 per degree), which makes           *)
(* degrees + minutes/60 + seconds/3600 exact for whole d, m, s.            *)
(***************************************************************************)
EXTENDS Integers, Sequences, FiniteSets, TLC

NoneV == [t |-> "none"]
Num(i) == [t |-> "num", n |-> i]
Str(cs) == [t |-> "str", s |-> cs]
Bytes(cs) == [t |-> "bytes", s |-> cs]
Rational(a, b) == [t |-> "rational", num |-> a, den |-> b]
Tuple(xs) == [t |-> "tuple", items |-> xs]
List(xs) == [t |-> "list", items |-> xs]
Dict(ps) == [t |-> "dict", pairs |-> ps]
Name(s) == [name |-> s]
Code(i) == [code |-> i]

\* The outcome of a Python expression: a value, or a raised Exception.
Ok(v) == [ok |-> TRUE, v |-> v]
Raised == [ok |-> FALSE]

----------------------------------------------------------------------------
(* dict operations *)

HasKey(d, k) == \E i \in 1..Len(d.pairs) : d.pairs[i][1] = k

\* d[k], for a key d has
Lookup(d, k) ==
    LET i == CHOOSE j \in 1..Len(d.pairs) : d.pairs[j][1] = k IN d.pairs[i][2]

\* d.get(k)
DictGet(d, k) == IF HasKey(d, k) THEN Lookup(d, k) ELSE NoneV

\* d[k] = v: a present key keeps its place, a new one goes last
DictSet(d, k, v) ==
    IF HasKey(d, k)
    THEN Dict([i \in 1..Len(d.pairs) |->
                 IF d.pairs[i][1] = k THEN <<k, v>> ELSE d.pairs[i]])
    ELSE Dict(Append(d.pairs, <<k, v>>))

EmptyDict == Dict(<<>>)

\* Python truthiness, `not value` being its negation
Truthy(v) ==
    CASE v.t = "none" -> FALSE
      [] v.t = "num" -> v.n # 0
      [] v.t \in {"str", "bytes"} -> Len(v.s) > 0
      [] v.t \in {"tuple", "list"} -> Len(v.items) > 0
      [] v.t = "dict" -> Len(v.pairs) > 0
      [] OTHER -> TRUE

----------------------------------------------------------------------------
(* float() *)

Digits == {"0", "1", "2", "3", "4", "5", "6", "7", "8", "9"}

DigitVal(c) ==
    CASE c = "0" -> 0 [] c = "1" -> 1 [] c = "2" -> 2 [] c = "3" -> 3
      [] c = "4" -> 4 [] c = "5" -> 5 [] c = "6" -> 6 [] c = "7" -> 7
      [] c = "8" -> 8 [] c = "9" -> 9

RECURSIVE Decimal(_)
Decimal(cs) ==
    IF cs = <<>> THEN 0
    ELSE 10 * Decimal(SubSeq(cs, 1, Len(cs) - 1)) + DigitVal(cs[Len(cs)])

\* The text of a number, over the characters of the model (digits and the
\* letters a, b, c, the quote, no sign, point, exponent or blank)
IsNumeric(cs) == Len(cs) > 0 /\ \A i \in 1..Len(cs) : cs[i] \in Digits

\* float(value): a number converts, a str or bytes is parsed, an IFDRational
\* divides; None, tuples, lists and dicts raise TypeError, other text raises
\* ValueError.
ToFloat(v) ==
    CASE v.t = "num" -> Ok(v.n)
      [] v.t \in {"str", "bytes"} ->
            IF IsNumeric(v.s) THEN Ok(Decimal(v.s)) ELSE Raised
      [] v.t = "rational" -> Ok(v.num \div v.den)
      [] OTHER -> Raised

----------------------------------------------------------------------------
(* _make_json_safe *)

\* str(value) of a bytes object: b'...'
Repr(v) == Str(<<"b", "'">> \o v.s \o <<"'">>)

RECURSIVE _make_json_safe(_)
_make_json_safe(value) ==
    CASE value.t \in {"num", "str", "none"} -> value
      [] value.t = "dict" ->
            Dict([i \in 1..Len(value.pairs) |->
                    <<value.pairs[i][1], _make_json_safe(value.pairs[i][2])>>])
      [] value.t \in {"list", "tuple"} ->
            List([i \in 1..Len(value.items) |-> _make_json_safe(value.items[i])])
      [] OTHER ->
            IF ToFloat(value).ok THEN Num(ToFloat(value).v) ELSE Repr(value)

----------------------------------------------------------------------------
(* _convert_to_degrees and extract_gps *)

ArcSecondsPerDegree == 3600
ArcSecondsPerMinute == 60

\* A dict key as the value iterating the dict yields
KeyValue(k) ==
    IF "code" \in DOMAIN k THEN Num(k.code) ELSE [t |-> "name", name |-> k.name]

\* d, m, s = value: the elements a value yields when iterated, which must be
\* three; a str yields its characters, a dict its keys, a number or None is
\* not iterable.
Unpack3(value) ==
    LET elems ==
          CASE value.t \in {"list", "tuple"} -> Ok(value.items)
            [] value.t = "str" ->
                  Ok([i \in 1..Len(value.s) |-> Str(<<value.s[i]>>)])
            [] value.t = "dict" ->
                  Ok([i \in 1..Len(value.pairs) |-> KeyValue(value.pairs[i][1])])
            [] OTHER -> Raised
    IN  IF elems.ok /\ Len(elems.v) = 3 THEN elems ELSE Raised

_convert_to_degrees(value) ==
    LET u == Unpack3(value) IN
    IF ~u.ok THEN Raised
    ELSE LET d == ToFloat(u.v[1])
             m == ToFloat(u.v[2])
             s == ToFloat(u.v[3])
         IN  IF d.ok /\ m.ok /\ s.ok
             THEN Ok(d.v * ArcSecondsPerDegree + m.v * ArcSecondsPerMinute + s.v)
             ELSE Raised

\* gps[key]: a dict subscripted by a key it has; anything else raises
Subscript(gps, k) ==
    IF gps.t = "dict" /\ HasKey(gps, k) THEN Ok(Lookup(gps, k)) ELSE Raised

\* gps.get(key): only a dict has the method
GetRef(gps, k) == IF gps.t = "dict" THEN Ok(DictGet(gps, k)) ELSE Raised

Negate(x) == 0 - x

\* The sign a hemisphere reference gives a coordinate
Signed(x, ref, negative) == IF ref = Str(<<negative>>) THEN Negate(x) ELSE x

\* extract_gps returns (lat, lon) as [ok |-> TRUE, lat, lon], or None as
\* [ok |-> FALSE]; every Exception of its body is caught and gives None.
NoGps == [ok |-> FALSE]

extract_gps(exif_data) ==
    IF exif_data.t # "dict" THEN NoGps
    ELSE LET gps == DictGet(exif_data, Name("GPSInfo")) IN
         IF ~Truthy(gps) THEN NoGps
         ELSE LET latv == Subscript(gps, Name("GPSLatitude"))
                  latd == IF latv.ok THEN _convert_to_degrees(latv.v) ELSE Raised
                  latr == GetRef(gps, Name("GPSLatitudeRef"))
                  lonv == Subscript(gps, Name("GPSLongitude"))
                  lond == IF lonv.ok THEN _convert_to_degrees(lonv.v) ELSE Raised
                  lonr == GetRef(gps, Name("GPSLongitudeRef"))
              IN  IF latd.ok /\ latr.ok /\ lond.ok /\ lonr.ok
                  THEN [ok |-> TRUE,
                        lat |-> Signed(latd.v, latr.v, "S"),
                        lon |-> Signed(lond.v, lonr.v, "W")]
                  ELSE NoGps

----------------------------------------------------------------------------
(* Python floats: IEEE 754 binary64, round to nearest, ties to even.  A     *)
(* positive float is a significand, kept as its bits (most significant     *)
(* first), times 2^(-scale).  Division and multiplication run on digits of *)
(* LimbBits bits each.                                                     *)

MantissaBits == 53
LimbBits == 11

RECURSIVE Pow2(_)
Pow2(n) == IF n = 0 THEN 1 ELSE 2 * Pow2(n - 1)

LimbBase == Pow2(LimbBits)

RECURSIVE BitsToInt(_)
BitsToInt(bits) ==
    IF Len(bits) = 0 THEN 0
    ELSE 2 * BitsToInt(SubSeq(bits, 1, Len(bits) - 1)) + bits[Len(bits)]

RECURSIVE BitLength(_)
BitLength(n) == IF n = 0 THEN 0 ELSE 1 + BitLength(n \div 2)

IntToBits(n) ==
    [i \in 1..BitLength(n) |-> (n \div Pow2(BitLength(n) - i)) % 2]

\* The bits of a number given by its digits, and back
DigitsToBits(ds) ==
    [i \in 1..(Len(ds) * LimbBits) |->
        (ds[(i - 1) \div LimbBits + 1]
            \div Pow2(LimbBits - 1 - ((i - 1) % LimbBits))) % 2]

BitsToDigits(bits) ==
    LET n == (Len(bits) + LimbBits - 1) \div LimbBits
        padded == [i \in 1..(n * LimbBits - Len(bits)) |-> 0] \o bits
    IN  [j \in 1..n |->
            BitsToInt(SubSeq(padded, (j - 1) * LimbBits + 1, j * LimbBits))]

\* bits without the zeros that open it
StripZeros(bits) ==
    LET ones == {i \in 1..Len(bits) : bits[i] = 1} IN
    IF ones = {} THEN <<>>
    ELSE SubSeq(bits, CHOOSE i \in ones : \A j \in ones : i <= j, Len(bits))

\* bits + 1: the last 0 becomes 1 and the 1s after it become 0
Increment(bits) ==
    LET zeros == {i \in 1..Len(bits) : bits[i] = 0} IN
    IF zeros = {} THEN <<1>> \o [i \in 1..Len(bits) |-> 0]
    ELSE LET last == CHOOSE i \in zeros : \A j \in zeros : j <= i
         IN  [i \in 1..Len(bits) |->
                IF i < last THEN bits[i] ELSE IF i = last THEN 1 ELSE 0]

\* Round to nearest, ties to even: kept are the bits retained, guard the
\* first bit dropped, sticky whether anything nonzero follows it.
RoundNearestEven(kept, guard, sticky) ==
    IF guard = 1 /\ (sticky \/ kept[Len(kept)] = 1) THEN Increment(kept) ELSE kept

\* The next n digits of the expansion of r / b (0 <= r < b), and the
\* remainder left after them
RECURSIVE FracDigits(_, _, _)
FracDigits(r, b, n) ==
    IF n = 0 THEN [digits |-> <<>>, rem |-> r]
    ELSE LET rest == FracDigits((r * LimbBase) % b, b, n - 1)
         IN  [digits |-> <<(r * LimbBase) \div b>> \o rest.digits,
              rem |-> rest.rem]

\* The number of zero bits that open the binary expansion of r / b, 0 < r < b
RECURSIVE LeadingZeros(_, _)
LeadingZeros(r, b) == IF 2 * r >= b THEN 0 ELSE 1 + LeadingZeros(2 * r, b)

\* a / float(b) for whole 0 < a < b: the quotient rounded to 53 bits
FloatDiv(a, b) ==
    LET z == LeadingZeros(a, b)
        n == (MantissaBits + LimbBits) \div LimbBits
        fd == FracDigits(a * Pow2(z), b, n)
        bits == DigitsToBits(fd.digits)
    IN  [bits |-> RoundNearestEven(
                     SubSeq(bits, 1, MantissaBits), bits[MantissaBits + 1],
                     fd.rem # 0
                       \/ \E i \in (MantissaBits + 2)..Len(bits) : bits[i] = 1),
         scale |-> z + MantissaBits]

\* digits * h + carry for a whole h >= 1, as the digits of the product in the
\* places of digits and the carry out of them
RECURSIVE MulDigits(_, _, _)
MulDigits(ds, h, carry) ==
    IF Len(ds) = 0 THEN [digits |-> <<>>, carry |-> carry]
    ELSE LET t == ds[Len(ds)] * h + carry
             rest == MulDigits(SubSeq(ds, 1, Len(ds) - 1), h, t \div LimbBase)
         IN  [digits |-> rest.digits \o <<t % LimbBase>>, carry |-> rest.carry]

\* float(h) * x for a whole h >= 1: the product rounded to 53 bits
FloatMul(h, x) ==
    LET m == MulDigits(BitsToDigits(x.bits), h, 0)
        p == StripZeros(IntToBits(m.carry) \o DigitsToBits(m.digits))
        drop == Len(p) - MantissaBits
    IN  IF drop <= 0 THEN [bits |-> p, scale |-> x.scale]
        ELSE [bits |-> RoundNearestEven(
                          SubSeq(p, 1, MantissaBits), p[MantissaBits + 1],
                          \E i \in (MantissaBits + 2)..Len(p) : p[i] = 1),
              scale |-> x.scale - drop]

\* int(x): the float truncated toward zero
FloatToInt(x) ==
    IF x.scale <= 0 THEN BitsToInt(x.bits) * Pow2(0 - x.scale)
    ELSE IF Len(x.bits) <= x.scale THEN 0
    ELSE BitsToInt(SubSeq(x.bits, 1, Len(x.bits) - x.scale))

----------------------------------------------------------------------------
(* The image variants *)

ThumbSide == 256
LargeWidth == 2000

Size(w, h) == [width |-> w, height |-> h]

Min(a, b) == IF a <= b THEN a ELSE b

\* ImageOps.exif_transpose: the orientations 5 to 8 exchange the axes
exif_transpose(img, orientation) ==
    IF orientation \in 5..8 THEN Size(img.height, img.width) ELSE img

\* A crop box of the same side taken from the top left corner
CornerBox(img) ==
    LET min_side == Min(img.width, img.height)
    IN  [left |-> 0, top |-> 0, right |-> min_side, bottom |-> min_side]

\* The centred square crop box of the thumbnail
ThumbBox(img) ==
    LET min_side == Min(img.width, img.height)
        left == (img.width - min_side) \div 2
        top == (img.height - min_side) \div 2
    IN  [left |-> left, top |-> top,
         right |-> left + min_side, bottom |-> top + min_side]

\* Image.crop: the region has the size of the box
Crop(box) == Size(box.right - box.left, box.bottom - box.top)

\* Image.resize raises ValueError for an empty target size
Resize(w, h) == IF w > 0 /\ h > 0 THEN Ok(Size(w, h)) ELSE Raised

Thumbnail(img) == Resize(ThumbSide, ThumbSide)

\* new_height = int(float(large.height) * ratio), ratio = 2000 / float(width)
NewHeight(img) == FloatToInt(FloatMul(img.height, FloatDiv(LargeWidth, img.width)))

Large(img) ==
    IF img.width > LargeWidth THEN Resize(LargeWidth, NewHeight(img)) ELSE Ok(img)

----------------------------------------------------------------------------
(* The EXIF step of process_images_and_exif, lines 122 to 143 *)

\* ExifTags.TAGS.get(tag, tag): the name of a tag code, or the code itself
TAGS(tag) ==
    CASE tag = Code(271) -> Name("Make")
      [] tag = Code(272) -> Name("Model")
      [] tag = Code(37500) -> Name("MakerNote")
      [] tag = Code(34853) -> Name("GPSInfo")
      [] OTHER -> tag

\* ExifTags.GPSTAGS.get(key, key)
GPSTAGS(key) ==
    CASE key = Code(1) -> Name("GPSLatitudeRef")
      [] key = Code(2) -> Name("GPSLatitude")
      [] key = Code(3) -> Name("GPSLongitudeRef")
      [] key = Code(4) -> Name("GPSLongitude")
      [] OTHER -> key

\* The gps_data of lines 133 to 136.  Iterating a value that is no dict
\* (None, or the bare offset of an unreadable GPS block) raises TypeError.
GpsData(value) ==
    IF value.t # "dict" THEN Raised
    ELSE Ok(Dict([i \in 1..Len(value.pairs) |->
                    <<GPSTAGS(value.pairs[i][1]),
                      _make_json_safe(value.pairs[i][2])>>]))

\* The loop of lines 127 to 139 from the i-th tag on: the dict built, and
\* whether an exception ended the loop early
RECURSIVE ExifLoop(_, _, _)
ExifLoop(pairs, i, exif_data) ==
    IF i > Len(pairs) THEN [exif |-> exif_data, raised |-> FALSE]
    ELSE LET tag_name == TAGS(pairs[i][1])
             value == pairs[i][2]
         IN  IF tag_name = Name("MakerNote")
             THEN ExifLoop(pairs, i + 1, exif_data)
             ELSE IF tag_name = Name("GPSInfo")
             THEN IF GpsData(value).ok
                  THEN ExifLoop(pairs, i + 1,
                                DictSet(exif_data, Name("GPSInfo"), GpsData(value).v))
                  ELSE [exif |-> exif_data, raised |-> TRUE]
             ELSE ExifLoop(pairs, i + 1,
                           DictSet(exif_data, tag_name, _make_json_safe(value)))

\* img._getexif() of a file: [t |-> "raises"] when the call raises (the image
\* class has no such method, the block is corrupt), None when the image has
\* no EXIF, or the dict of tag codes and values
ExtractExif(raw_exif) ==
    IF raw_exif.t = "raises" THEN [exif |-> EmptyDict, raised |-> TRUE]
    ELSE IF ~Truthy(raw_exif) THEN [exif |-> EmptyDict, raised |-> FALSE]
    ELSE ExifLoop(raw_exif.pairs, 1, EmptyDict)

----------------------------------------------------------------------------
(* slugify (django.utils.text), over the characters of the model *)

Lower(c) ==
    CASE c = "T" -> "t" [] c = "M" -> "m" [] OTHER -> c

\* [\w\s-]: the characters re.sub leaves in place
SlugKept(c) == c \in {"t", "r", "i", "p", "m", "y", "2", "_", " ", "-"}

Separator(c) == c \in {" ", "-"}

\* re.sub(r'[-\s]+', '-', value): each run of separators becomes one hyphen
Collapse(cs) ==
    LET starts == {i \in 1..Len(cs) :
                     ~Separator(cs[i]) \/ i = 1 \/ ~Separator(cs[i - 1])}
        Pick(i) == i \in starts
        idx == SelectSeq([i \in 1..Len(cs) |-> i], Pick)
    IN  [k \in 1..Len(idx) |-> IF Separator(cs[idx[k]]) THEN "-" ELSE cs[idx[k]]]

\* value.strip('-_')
Strip(cs) ==
    LET inner == {i \in 1..Len(cs) : cs[i] \notin {"-", "_"}} IN
    IF inner = {} THEN <<>>
    ELSE SubSeq(cs, CHOOSE i \in inner : \A j \in inner : i <= j,
                    CHOOSE i \in inner : \A j \in inner : j <= i)

slugify(name) ==
    LET lowered == [i \in 1..Len(name) |-> Lower(name[i])]
    IN  Strip(Collapse(SelectSeq(lowered, SlugKept)))

----------------------------------------------------------------------------
(* The uploaded files *)

JpegGps ==
    [name |-> "beach.jpg", decodable |-> TRUE, mode |-> "RGB",
     size |-> Size(4000, 2000), orientation |-> 1,
     exif |-> Dict(<< <<Code(271), Str(<<"a", "b">>)>>,
                      <<Code(37500), Bytes(<<"a">>)>>,
                      <<Code(59999), Rational(4, 2)>>,
                      <<Code(34853),
                        Dict(<< <<Code(1), Str(<<"S">>)>>,
                                <<Code(2), Tuple(<<Rational(10, 1), Rational(30, 1),
                                                   Rational(0, 1)>>)>>,
                                <<Code(3), Str(<<"E">>)>>,
                                <<Code(4), Tuple(<<Rational(20, 1), Rational(0, 1),
                                                   Rational(0, 1)>>)>> >>)>> >>)]

\* A JPEG whose GPS block cannot be read: the GPSInfo tag holds no dict
JpegBadGps ==
    [name |-> "hill.jpg", decodable |-> TRUE, mode |-> "RGB",
     size |-> Size(3000, 1000), orientation |-> 6,
     exif |-> Dict(<< <<Code(271), Str(<<"a", "b">>)>>,
                      <<Code(34853), NoneV>>,
                      <<Code(272), Str(<<"c">>)>> >>)]

\* A PNG with an alpha channel: no _getexif, and no JPEG can be written of it
PngAlpha ==
    [name |-> "logo.png", decodable |-> TRUE, mode |-> "RGBA",
     size |-> Size(1000, 800), orientation |-> 1, exif |-> [t |-> "raises"]]

\* An opaque PNG: no _getexif
PngOpaque ==
    [name |-> "map.png", decodable |-> TRUE, mode |-> "RGB",
     size |-> Size(2124, 531), orientation |-> 1, exif |-> [t |-> "raises"]]

\* A file that is no image
Corrupt ==
    [name |-> "notes.txt", decodable |-> FALSE, mode |-> "RGB",
     size |-> Size(1, 1), orientation |-> 1, exif |-> NoneV]

\* A JPEG without EXIF, one pixel high
Sliver ==
    [name |-> "line.jpg", decodable |-> TRUE, mode |-> "RGB",
     size |-> Size(5000, 1), orientation |-> 1, exif |-> NoneV]

Files == <<JpegGps, JpegBadGps, PngAlpha, PngOpaque, Corrupt, Sliver>>

FileIds == 1..Len(Files)

----------------------------------------------------------------------------
(* Photo.process_images_and_exif, lines 114 to 187 *)

\* A file field that holds a file: the original by the number of the upload,
\* a variant by its kind
FieldFile(x) == [t |-> "file", of |-> x]

\* Where the environment makes a save fail: the database write of line 109,
\* reading the original back, writing a variant to the public bucket, the
\* database write of line 187
Failures == {"none", "db", "open", "thumb_store", "large_store", "update"}

\* The JPEG encoder refuses the modes with an alpha channel or a palette
JpegWritable(mode) == mode \in {"RGB", "L", "CMYK"}

\* One step of the method: the instance after it, whether it raised, and the
\* variants it wrote to the storage
Step(inst, raised, wrote) == [inst |-> inst, raised |-> raised, wrote |-> wrote]

\* Lines 117 and 118
OpenStep(inst, file, fail) ==
    Step(inst, ~file.decodable \/ fail = "open", {})

\* Lines 122 to 143
ExifStep(inst, file) ==
    Step([inst EXCEPT !.exif = ExtractExif(file.exif).exif], FALSE, {})

\* Lines 145 to 148: unpacking None raises the TypeError the method passes over
GpsStep(inst) ==
    LET gps == extract_gps(inst.exif) IN
    IF gps.ok
    THEN Step([inst EXCEPT !.longitude = Num(gps.lat), !.latitude = Num(gps.lon)],
              FALSE, {})
    ELSE Step(inst, FALSE, {})

\* Lines 154 to 173 as they would be with the failure of the thumbnail caught:
\* the method goes on without a thumbnail
ThumbnailStepCaught(inst, file, fail) ==
    LET img == exif_transpose(file.size, file.orientation)
        thumb == Thumbnail(Crop(ThumbBox(img)))
    IN  IF ~thumb.ok \/ ~JpegWritable(file.mode) \/ fail = "thumb_store"
        THEN Step(inst, FALSE, {})
        ELSE Step([inst EXCEPT !.thumbnail = FieldFile("thumbnail")],
                  FALSE, {"thumbnail"})

\* Lines 154 to 173
ThumbnailStep(inst, file, fail) ==
    LET img == exif_transpose(file.size, file.orientation)
        thumb == Thumbnail(Crop(ThumbBox(img)))
    IN  IF ~thumb.ok \/ ~JpegWritable(file.mode) \/ fail = "thumb_store"
        THEN Step(inst, TRUE, {})
        ELSE Step([inst EXCEPT !.thumbnail = FieldFile("thumbnail")],
                  FALSE, {"thumbnail"})

\* Lines 176 to 184
LargeStep(inst, file, fail) ==
    LET img == exif_transpose(file.size, file.orientation)
        large == Large(img)
    IN  IF ~large.ok \/ ~JpegWritable(file.mode) \/ fail = "large_store"
        THEN Step(inst, TRUE, {})
        ELSE Step([inst EXCEPT !.large = FieldFile("large")], FALSE, {"large"})

\* What the method did: the instance it leaves, whether it raised, the step
\* that raised, the variants written, and whether line 187 wrote the row
Result(step, stage, wrote) ==
    [inst |-> step.inst, raised |-> stage # "done", stage |-> stage,
     wrote |-> wrote, updated |-> stage = "done"]

\* Line 187, after both variants are stored
UpdateStep(thumb, large, fail) ==
    IF fail = "update" THEN Result(large, "update", thumb.wrote \cup large.wrote)
    ELSE Result(large, "done", thumb.wrote \cup large.wrote)

\* Lines 176 to 187, after the thumbnail step
AfterThumbnail(thumb, large, fail) ==
    IF large.raised THEN Result(large, "large", thumb.wrote)
    ELSE UpdateStep(thumb, large, fail)

\* Lines 154 to 187, after the GPS step: an exception of the thumbnail step
\* leaves the method before the large rendition is made
AfterGps(thumb, file, fail) ==
    IF thumb.raised THEN Result(thumb, "thumbnail", {})
    ELSE AfterThumbnail(thumb, LargeStep(thumb.inst, file, fail), fail)

\* Lines 122 to 187, after the image is opened
AfterOpen(opened, file, fail) ==
    IF opened.raised THEN Result(opened, "open", {})
    ELSE AfterGps(ThumbnailStep(GpsStep(ExifStep(opened.inst, file).inst).inst,
                                file, fail),
                  file, fail)

\* The method: its steps in order, the first that raises ending it
process_images_and_exif(inst, fail) ==
    AfterOpen(OpenStep(inst, Files[inst.original_image.of], fail),
              Files[inst.original_image.of], fail)

----------------------------------------------------------------------------
(* State *)

VARIABLES
    photo,        \* the Photo instances in memory, by number
    photoDb,      \* the rows of the Photo table
    storage,      \* the objects in the buckets, as <<photo, variant>>
    processCount, \* how often process_images_and_exif was called on a photo
    everOriginal, \* whether a save ever persisted the photo's original image
    last,         \* what the last operation on a photo did
    album,        \* the Album instances in memory
    albumDb,      \* the rows of the Album table
    lastAlbum,    \* what the last Album.save did
    gpsIn,        \* the argument of a call of extract_gps, NoCall before any
    gpsOut,       \* what the call returned
    imgIn,        \* a decoded image handed to the variant generator
    imgOut        \* the variants generated from it

photoVars == <<photo, photoDb, storage, processCount, everOriginal, last>>
albumVars == <<album, albumDb, lastAlbum>>
gpsVars == <<gpsIn, gpsOut>>
imgVars == <<imgIn, imgOut>>
vars == <<photoVars, albumVars, gpsVars, imgVars>>

NoCall == [t |-> "nocall"]
NoPhoto == [t |-> "nophoto"]
NoRow == [t |-> "norow"]
NoAlbum == [t |-> "noalbum"]
NoOp == [op |-> "none"]

\* The photos callers build and save one by one, and the files of one upload
MaxPhotos == 1
MaxUploadFiles == 2

PhotoIds == 1..MaxPhotos

\* The numbers a photo can have
Slots == 1..(IF MaxPhotos >= MaxUploadFiles THEN MaxPhotos ELSE MaxUploadFiles)

MaxAlbums == 2
AlbumIds == 1..MaxAlbums

Variants3 == {"original", "thumbnail", "large"}

IdlePhotos ==
    /\ photo = [p \in Slots |-> NoPhoto]
    /\ photoDb = [p \in Slots |-> NoRow]
    /\ storage = {}
    /\ processCount = [p \in Slots |-> 0]
    /\ everOriginal = [p \in Slots |-> FALSE]
    /\ last = NoOp

IdleAlbums ==
    /\ album = [a \in AlbumIds |-> NoAlbum]
    /\ albumDb = [a \in AlbumIds |-> NoRow]
    /\ lastAlbum = NoOp

IdleGps == gpsIn = NoCall /\ gpsOut = NoCall

IdleVariant == imgIn = NoCall /\ imgOut = NoCall

----------------------------------------------------------------------------
(* Photo.save, lines 103 to 112 *)

\* Photo(...): the fields of a new instance
NewInstance(name, original) ==
    [name |-> name, original_image |-> original, thumbnail |-> NoneV,
     large |-> NoneV, exif |-> NoneV, latitude |-> NoneV, longitude |-> NoneV,
     adding |-> TRUE]

\* The row super().save() writes for an instance
RowOf(inst) ==
    [name |-> inst.name, original_image |-> inst.original_image,
     thumbnail |-> inst.thumbnail, large |-> inst.large, exif |-> inst.exif,
     latitude |-> inst.latitude, longitude |-> inst.longitude]

\* super().save(update_fields=[...]) of line 187
UpdateFields(row, inst) ==
    [row EXCEPT !.thumbnail = inst.thumbnail, !.large = inst.large,
                !.exif = inst.exif, !.latitude = inst.latitude,
                !.longitude = inst.longitude]

\* original_image.name: the name of the uploaded file, None without a file
OriginalName(inst) ==
    IF Truthy(inst.original_image)
    THEN [t |-> "text", text |-> Files[inst.original_image.of].name]
    ELSE NoneV

\* creating and self.original_image, line 111
ShouldProcess(creating, inst) == creating /\ Truthy(inst.original_image)

\* The failures that can strike a save of the instance
ApplicableFailures(inst) ==
    IF ShouldProcess(inst.adding, inst) THEN Failures ELSE {"none", "db"}

\* The state of the photos as one record, for the operations that are
\* sequences of saves
PhotoState(ph, db, st, pc, eo) ==
    [photo |-> ph, photoDb |-> db, storage |-> st, processCount |-> pc,
     everOriginal |-> eo]

\* What a save did: the photos after it, whether it raised, whether it was
\* the insert, whether it ran the processing, and the step that raised
Outcome(state, raised, creating, processed, stage) ==
    [state |-> state, raised |-> raised, creating |-> creating,
     processed |-> processed, stage |-> stage]

\* Lines 105 and 106
Named(inst) ==
    IF Truthy(inst.name) THEN inst ELSE [inst EXCEPT !.name = OriginalName(inst)]

\* The storage once the original of an instance is written to it
WithOriginal(st, p, inst) ==
    st \cup (IF Truthy(inst.original_image) THEN {<<p, "original">>} ELSE {})

\* Lines 111 and 112, the row being written: r is what the processing did
SaveProcessed(s, p, saved, r) ==
    Outcome([s EXCEPT !.photo[p] = r.inst,
                      !.photoDb[p] = IF r.updated
                                     THEN UpdateFields(RowOf(saved), r.inst)
                                     ELSE RowOf(saved),
                      !.storage = WithOriginal(s.storage, p, saved)
                                      \cup {<<p, v>> : v \in r.wrote},
                      !.processCount[p] = @ + 1,
                      !.everOriginal[p] = TRUE],
            r.raised, TRUE, TRUE, r.stage)

\* Lines 108 to 112.  The original is written to the storage while the row
\* is being written, so it is stored even when the database fails.
SaveNamed(s, p, named, fail) ==
    IF fail = "db"
    THEN Outcome([s EXCEPT !.photo[p] = named,
                           !.storage = WithOriginal(s.storage, p, named)],
                 TRUE, named.adding, FALSE, "db")
    ELSE IF ShouldProcess(named.adding, named)
    THEN SaveProcessed(s, p, [named EXCEPT !.adding = FALSE],
                       process_images_and_exif([named EXCEPT !.adding = FALSE], fail))
    ELSE Outcome([s EXCEPT !.photo[p] = [named EXCEPT !.adding = FALSE],
                           !.photoDb[p] = RowOf(named),
                           !.storage = WithOriginal(s.storage, p, named),
                           !.everOriginal[p] = @ \/ Truthy(named.original_image)],
                 FALSE, named.adding, FALSE, "skipped")

\* Photo.save on instance p
Save(s, p, fail) == SaveNamed(s, p, Named(s.photo[p]), fail)

CurrentPhotos == PhotoState(photo, photoDb, storage, processCount, everOriginal)

SetPhotos(s) ==
    /\ photo' = s.photo
    /\ photoDb' = s.photoDb
    /\ storage' = s.storage
    /\ processCount' = s.processCount
    /\ everOriginal' = s.everOriginal

\* What the environment did to the thumbnail of a save that got to produce
\* it: the encoder refused the image, or the bucket refused the file
ThumbnailFailed(inst, fail) ==
    /\ Truthy(inst.original_image)
    /\ Files[inst.original_image.of].decodable
    /\ fail \notin {"db", "open"}
    /\ (~JpegWritable(Files[inst.original_image.of].mode) \/ fail = "thumb_store")

\* Whether the EXIF step of a save that got to it met an exception
ExifRaised(inst, fail) ==
    /\ Truthy(inst.original_image)
    /\ Files[inst.original_image.of].decodable
    /\ fail \notin {"db", "open"}
    /\ ExtractExif(Files[inst.original_image.of].exif).raised

\* A caller builds a Photo, with or without an original image
NewPhoto(p, original) ==
    /\ photo[p] = NoPhoto
    /\ photo' = [photo EXCEPT ![p] = NewInstance(NoneV, original)]
    /\ last' = [op |-> "new", p |-> p]
    /\ UNCHANGED <<photoDb, storage, processCount, everOriginal>>
    /\ UNCHANGED <<albumVars, gpsVars, imgVars>>

\* A caller assigns the original image of an instance that never had one
AttachOriginal(p, f) ==
    /\ photo[p] # NoPhoto
    /\ ~Truthy(photo[p].original_image)
    /\ ~everOriginal[p]
    /\ photo' = [photo EXCEPT ![p].original_image = FieldFile(f)]
    /\ last' = [op |-> "attach", p |-> p]
    /\ UNCHANGED <<photoDb, storage, processCount, everOriginal>>
    /\ UNCHANGED <<albumVars, gpsVars, imgVars>>

\* What the last save did, r being its outcome
SaveRecord(p, fail, r) ==
    [op |-> "save", p |-> p, raised |-> r.raised, creating |-> r.creating,
     processed |-> r.processed, stage |-> r.stage,
     thumbFailed |-> r.processed /\ ThumbnailFailed(photo[p], fail),
     exifRaised |-> r.processed /\ ExifRaised(photo[p], fail)]

Saved(p, fail, r) == SetPhotos(r.state) /\ last' = SaveRecord(p, fail, r)

\* instance.save()
PhotoSave(p, fail) ==
    /\ photo[p] # NoPhoto
    /\ fail \in ApplicableFailures(photo[p])
    /\ Saved(p, fail, Save(CurrentPhotos, p, fail))
    /\ UNCHANGED <<albumVars, gpsVars, imgVars>>

----------------------------------------------------------------------------
(* delete_file_from_s3, lines 195 to 212, run by instance.delete() *)

\* The file fields of the hook, in its order
HookOrder == <<"original", "thumbnail", "large">>

FieldOf(inst, v) ==
    CASE v = "original" -> inst.original_image
      [] v = "thumbnail" -> inst.thumbnail
      [] v = "large" -> inst.large

ClearField(inst, v) ==
    CASE v = "original" -> [inst EXCEPT !.original_image = NoneV]
      [] v = "thumbnail" -> [inst EXCEPT !.thumbnail = NoneV]
      [] v = "large" -> [inst EXCEPT !.large = NoneV]

\* The hook from its i-th field on: field.delete(save=False) asks the storage
\* to delete the file and then empties the field; a storage error leaves the
\* hook at once.
RECURSIVE Hook(_, _, _, _)
Hook(i, inst, failing, attempted) ==
    IF i > Len(HookOrder)
    THEN [inst |-> inst, attempted |-> attempted, raised |-> FALSE]
    ELSE LET v == HookOrder[i] IN
         IF ~Truthy(FieldOf(inst, v)) THEN Hook(i + 1, inst, failing, attempted)
         ELSE IF v \in failing
         THEN [inst |-> inst, attempted |-> attempted \cup {v}, raised |-> TRUE]
         ELSE Hook(i + 1, ClearField(inst, v), failing, attempted \cup {v})

delete_file_from_s3(inst, failing) == Hook(1, inst, failing, {})

Populated(inst) == {v \in Variants3 : Truthy(FieldOf(inst, v))}

\* The state after a deletion whose hook did h.  The caller drops the
\* instance of a deleted photo, and its number is free for another photo.
Deleted(p, failing, h) ==
    /\ storage' = storage \ {<<p, v>> : v \in h.attempted \ failing}
    /\ last' = [op |-> "delete", p |-> p, raised |-> h.raised,
                populated |-> Populated(photo[p]), attempted |-> h.attempted]
    /\ IF h.raised
       THEN /\ photo' = [photo EXCEPT ![p] = h.inst]
            /\ UNCHANGED <<photoDb, processCount, everOriginal>>
       ELSE /\ photo' = [photo EXCEPT ![p] = NoPhoto]
            /\ photoDb' = [photoDb EXCEPT ![p] = NoRow]
            /\ processCount' = [processCount EXCEPT ![p] = 0]
            /\ everOriginal' = [everOriginal EXCEPT ![p] = FALSE]

\* instance.delete(): the row is deleted and the post_delete signal runs the
\* hook inside the transaction of the deletion, so an exception of the hook
\* reaches the caller and the deletion of the row is rolled back.  failing
\* holds the file whose deletion the storage refuses, if any: the hook ends
\* at the first refusal, so one is all a run can meet.
PhotoDelete(p, failing) ==
    /\ photo[p] # NoPhoto
    /\ photoDb[p] # NoRow
    /\ failing \subseteq Populated(photo[p])
    /\ Cardinality(failing) <= 1
    /\ Deleted(p, failing, delete_file_from_s3(photo[p], failing))
    /\ UNCHANGED <<albumVars, gpsVars, imgVars>>

----------------------------------------------------------------------------
(* PhotoAdmin.multi_upload_view, admin.py lines 49 to 73 *)

Free(s) == {p \in Slots : s.photo[p] = NoPhoto}

\* The lowest free number
FirstFree(s) == CHOOSE q \in Free(s) : \A o \in Free(s) : q <= o

\* Photo.objects.create(...) of lines 57 to 62: an instance is built and saved
Create(s, p, f, fail) ==
    Save([s EXCEPT !.photo[p] =
             NewInstance([t |-> "text", text |-> Files[f].name], FieldFile(f))],
         p, fail)

\* The loop of lines 56 to 62 from the i-th file on, r being what creating the
\* file before it did, as photo number p: an exception leaves the loop.  The
\* environment makes the save of the file numbered failAt fail.
RECURSIVE UploadLoop(_, _, _, _, _, _)
UploadLoop(r, p, files, failAt, fail, i) ==
    IF r.raised
    THEN [state |-> r.state, created |-> i - 2, raised |-> TRUE, at |-> p,
          stage |-> r.stage]
    ELSE IF i > Len(files)
    THEN [state |-> r.state, created |-> Len(files), raised |-> FALSE, at |-> p,
          stage |-> r.stage]
    ELSE UploadLoop(Create(r.state, FirstFree(r.state), files[i],
                           IF i = failAt THEN fail ELSE "none"),
                    FirstFree(r.state), files, failAt, fail, i + 1)

\* What the last request did: the files it held, the photos it created,
\* whether an exception left the view, whether the success message was sent,
\* the number of the last photo it saved and the step that save ended in, and
\* the failure the environment made
UploadRecord(requested, created, raised, at, stage, fail) ==
    [op |-> "upload", requested |-> requested, created |-> created,
     raised |-> raised, message |-> ~raised /\ requested > 0, at |-> at,
     stage |-> stage, fail |-> fail]

\* The state after the loop did r
Uploaded(files, fail, r) ==
    /\ SetPhotos(r.state)
    /\ last' = UploadRecord(Len(files), r.created, r.raised, r.at, r.stage, fail)

\* A POST of the form.  is_valid() answers True whatever the form holds, so a
\* request without a valid album fails on cleaned_data["album"].
MultiUpload(files, failAt, fail, albumValid) ==
    /\ Len(files) <= Cardinality(Free(CurrentPhotos))
    /\ failAt \in DOMAIN files \cup {1}
    /\ (files = <<>> \/ ~albumValid) => fail = "none"
    /\ fail = "none" => failAt = 1
    /\ IF files = <<>>
       THEN /\ UNCHANGED <<photo, photoDb, storage, processCount, everOriginal>>
            /\ last' = UploadRecord(0, 0, FALSE, 0, "form", fail)
       ELSE IF ~albumValid
       THEN /\ UNCHANGED <<photo, photoDb, storage, processCount, everOriginal>>
            /\ last' = UploadRecord(Len(files), 0, TRUE, 0, "form", fail)
       ELSE Uploaded(files, fail,
                     UploadLoop([state |-> CurrentPhotos, raised |-> FALSE,
                                 stage |-> "form"],
                                0, files, failAt, fail, 1))
    /\ UNCHANGED <<albumVars, gpsVars, imgVars>>

UploadRequests ==
    UNION {[1..n -> FileIds] : n \in 0..MaxUploadFiles}

----------------------------------------------------------------------------
(* Album, lines 55 to 75, and Album.save, lines 67 to 70 *)

\* Album(name=..., slug=...): an instance that has no row yet
AlbumInstance(name, slug) == [name |-> name, slug |-> slug, adding |-> TRUE]

AlbumRow(inst) == [name |-> inst.name, slug |-> inst.slug]

\* Lines 68 and 69: an empty or absent slug is derived from the name
SlugForSave(inst) ==
    IF ~Truthy(inst.slug) THEN Str(slugify(inst.name.s)) ELSE inst.slug

\* The table accepts any slug: what line 57 would be without unique=True
AnySlug(db, a, slug) == FALSE

\* Line 57, unique=True: another row already has this slug (NULLs never clash)
SlugTaken(db, a, slug) ==
    /\ slug # NoneV
    /\ \E b \in AlbumIds \ {a} : db[b] # NoRow /\ db[b].slug = slug

\* Album.save on the instance: <<instance, table, raised>>.  The slug is
\* assigned before super().save(), so it stays on the instance when the
\* insert or update is refused with IntegrityError.
AlbumSaved(inst, db, a) ==
    LET slugged == [inst EXCEPT !.slug = SlugForSave(inst)] IN
    IF SlugTaken(db, a, slugged.slug)
    THEN [inst |-> slugged, db |-> db, raised |-> TRUE]
    ELSE [inst |-> [slugged EXCEPT !.adding = FALSE],
          db |-> [db EXCEPT ![a] = AlbumRow(slugged)],
          raised |-> FALSE]

AlbumNames ==
    { Str(<<"T", "r", "i", "p">>),
      Str(<<"t", "r", "i", "p", "!">>),
      Str(<<"!", "!">>) }

AlbumSlugs == { NoneV, Str(<<>>), Str(<<"t", "r", "i", "p">>) }

NewAlbum(a, name, slug) ==
    /\ album[a] = NoAlbum
    /\ albumDb[a] = NoRow
    /\ album' = [album EXCEPT ![a] = AlbumInstance(name, slug)]
    /\ lastAlbum' = [op |-> "new", a |-> a]
    /\ UNCHANGED <<albumDb, photoVars, gpsVars, imgVars>>

\* The caller assigns the fields of an instance between two saves
EditAlbum(a, name, slug) ==
    /\ album[a] # NoAlbum
    /\ <<name, slug>> # <<album[a].name, album[a].slug>>
    /\ album' = [album EXCEPT ![a].name = name, ![a].slug = slug]
    /\ lastAlbum' = [op |-> "edit", a |-> a]
    /\ UNCHANGED <<albumDb, photoVars, gpsVars, imgVars>>

AlbumSaveRecord(a, before, r) ==
    [op |-> "save", a |-> a, before |-> before, raised |-> r.raised]

AlbumSaveDone(a, before, r) ==
    /\ album' = [album EXCEPT ![a] = r.inst]
    /\ albumDb' = r.db
    /\ lastAlbum' = AlbumSaveRecord(a, before, r)

AlbumSave(a) ==
    /\ album[a] # NoAlbum
    /\ AlbumSaveDone(a, album[a], AlbumSaved(album[a], albumDb, a))
    /\ UNCHANGED <<photoVars, gpsVars, imgVars>>

----------------------------------------------------------------------------
(* The life of a photo: built, given an original, saved and deleted *)

Init == IdlePhotos /\ IdleAlbums /\ IdleGps /\ IdleVariant

Next ==
    \/ \E p \in PhotoIds : NewPhoto(p, NoneV)
    \/ \E p \in PhotoIds, f \in FileIds : NewPhoto(p, FieldFile(f))
    \/ \E p \in PhotoIds, f \in FileIds : AttachOriginal(p, f)
    \/ \E p \in PhotoIds, fail \in Failures : PhotoSave(p, fail)
    \/ \E p \in PhotoIds, failing \in SUBSET Variants3 : PhotoDelete(p, failing)

Spec == Init /\ [][Next]_vars

----------------------------------------------------------------------------
(* The upload form: requests of several files, one after another *)

NextUpload ==
    \E files \in UploadRequests, failAt \in 1..MaxUploadFiles :
       \E fail \in Failures, valid \in BOOLEAN :
          MultiUpload(files, failAt, fail, valid)

SpecUpload == Init /\ [][NextUpload]_vars

----------------------------------------------------------------------------
(* The albums: built, edited and saved in any order *)

NextAlbum ==
    \/ \E a \in AlbumIds, name \in AlbumNames, slug \in AlbumSlugs :
          NewAlbum(a, name, slug)
    \/ \E a \in AlbumIds, name \in AlbumNames, slug \in AlbumSlugs :
          EditAlbum(a, name, slug)
    \/ \E a \in AlbumIds : AlbumSave(a)

SpecAlbum == Init /\ [][NextAlbum]_vars

----------------------------------------------------------------------------
(* The variant generator on its own: lines 150 to 184 on every image size *)

MaxExtraWidth == 2
Widths ==
    {1, 2, 255, 256, 1000, 2000, 2105, 2124, 2256, 3000, 4000, 4032, 6000}
        \cup (2001..(2001 + MaxExtraWidth))
Heights == {1, 2, 141, 257, 531, 800, 1000, 1500, 2000, 2105, 3024, 4001}
Orientations == {1, 3, 6, 8}

\* One run of the generator: the working image after the orientation
\* correction, the crop box and the size of the thumbnail, the large rendition
Variants(img, orientation) ==
    LET work == exif_transpose(img, orientation) IN
    [img |-> work,
     box |-> ThumbBox(work),
     cropped |-> Crop(ThumbBox(work)),
     thumb |-> Thumbnail(Crop(ThumbBox(work))),
     large |-> Large(work)]

InitVariant ==
    /\ IdlePhotos /\ IdleAlbums /\ IdleGps
    /\ imgIn \in [size : {Size(w, h) : w \in Widths, h \in Heights},
                  orientation : Orientations]
    /\ imgOut = NoCall

GenerateVariants ==
    /\ imgOut = NoCall
    /\ imgOut' = Variants(imgIn.size, imgIn.orientation)
    /\ UNCHANGED <<photoVars, albumVars, gpsVars, imgIn>>

NextVariant == GenerateVariants

SpecVariant == InitVariant /\ [][NextVariant]_vars

----------------------------------------------------------------------------
(* extract_gps on its own: lines 32 to 50 on every shape of metadata *)

Absent == [t |-> "absent"]

\* The values a GPSLatitude or GPSLongitude entry takes: triples of numbers,
\* sequences of another length, triples with an element that is no number,
\* scalars, strings, None
DmsValues ==
    { List(<<Num(10), Num(30), Num(0)>>),
      List(<<Num(20), Num(0), Num(0)>>),
      Tuple(<<Rational(48, 1), Rational(51, 1), Rational(24, 1)>>),
      List(<<Num(10), Num(30)>>),
      List(<<Num(1), Num(2), Num(3), Num(4)>>),
      List(<<Num(10), NoneV, Num(0)>>),
      List(<<Num(10), Str(<<"a", "b">>), Num(0)>>),
      List(<<Str(<<"1", "0">>), Str(<<"3", "0">>), Str(<<"0">>)>>),
      Num(10),
      Str(<<"1", "2", "3">>),
      Str(<<"a", "b", "c">>),
      NoneV }

LatRefs == {Absent, Str(<<"N">>), Str(<<"S">>)}
LonRefs == {Absent, Str(<<"E">>), Str(<<"W">>)}

\* The entry of a dict literal, or nothing for an absent value
Entry(k, v) == IF v = Absent THEN <<>> ELSE << <<Name(k), v>> >>

GpsDicts ==
    { Dict(Entry("GPSLatitudeRef", latr) \o Entry("GPSLatitude", lat)
             \o Entry("GPSLongitudeRef", lonr) \o Entry("GPSLongitude", lon)) :
        latr \in LatRefs, lat \in DmsValues \cup {Absent},
        lonr \in LonRefs, lon \in DmsValues \cup {Absent} }

GpsInfoValues ==
    GpsDicts \cup {NoneV, Num(0), Num(5), Str(<<"a", "b", "c">>),
                   List(<<Num(10), Num(30), Num(0)>>)}

ExifInputs ==
    {NoneV, EmptyDict, Dict(Entry("Make", Str(<<"a", "b">>)))}
        \cup { Dict(Entry("Make", Str(<<"a", "b">>)) \o Entry("GPSInfo", g)) :
                 g \in GpsInfoValues }

InitGps ==
    /\ gpsIn \in ExifInputs
    /\ gpsOut = NoCall
    /\ IdlePhotos /\ IdleAlbums /\ IdleVariant

CallExtractGps ==
    /\ gpsOut = NoCall
    /\ gpsOut' = extract_gps(gpsIn)
    /\ UNCHANGED <<photoVars, albumVars, gpsIn, imgVars>>

NextGps == CallExtractGps

SpecGps == InitGps /\ [][NextGps]_vars

----------------------------------------------------------------------------
(* Claims about the variant generator *)

\* round(a / b) as Python rounds: to the nearest whole number, a half to the
\* even one
RoundDiv(a, b) ==
    LET q == a \div b
        r == a % b
    IN  IF 2 * r > b \/ (2 * r = b /\ q % 2 = 1) THEN q + 1 ELSE q

\* C5: a working image wider than 2000 gets a large rendition 2000 wide and
\* round(h * 2000 / w) high; any other image keeps its size.
C5_LargeRoundsHeight ==
    imgOut # NoCall =>
        LET w == imgOut.img.width
            h == imgOut.img.height
        IN  IF w > 2000
            THEN imgOut.large = Ok(Size(2000, RoundDiv(h * 2000, w)))
            ELSE imgOut.large = Ok(Size(w, h))

\* C7: the thumbnail is cut from the centred square of side min(w, h), whose
\* box lies inside the working image, and is exactly 256 x 256.
C7_ThumbBoxCentredInside ==
    imgOut # NoCall =>
        LET w == imgOut.img.width
            h == imgOut.img.height
            s == IF w <= h THEN w ELSE h
            box == imgOut.box
        IN  /\ box.left = (w - s) \div 2
            /\ box.top = (h - s) \div 2
            /\ box.right = box.left + s
            /\ box.bottom = box.top + s
            /\ 0 <= box.left /\ box.left < box.right /\ box.right <= w
            /\ 0 <= box.top /\ box.top < box.bottom /\ box.bottom <= h
            /\ imgOut.cropped = Size(s, s)
            /\ imgOut.thumb = Ok(Size(256, 256))

\* C7 witness: a thumbnail cut from the middle band of a landscape image
C7_Witness ==
    /\ imgOut # NoCall
    /\ imgOut.img = Size(4000, 2000)
    /\ imgOut.box = [left |-> 1000, top |-> 0, right |-> 3000, bottom |-> 2000]
    /\ imgOut.thumb = Ok(Size(256, 256))

----------------------------------------------------------------------------
(* Claims about extract_gps *)

\* A triple of degrees, minutes and seconds numbers
NumberTriple(v) ==
    /\ v.t \in {"list", "tuple"}
    /\ Len(v.items) = 3
    /\ \A i \in 1..3 : v.items[i].t \in {"num", "rational"}

WellFormedGps(e) ==
    /\ e.t = "dict"
    /\ HasKey(e, Name("GPSInfo"))
    /\ LET g == Lookup(e, Name("GPSInfo")) IN
       /\ g.t = "dict"
       /\ HasKey(g, Name("GPSLatitude"))
       /\ HasKey(g, Name("GPSLongitude"))
       /\ NumberTriple(Lookup(g, Name("GPSLatitude")))
       /\ NumberTriple(Lookup(g, Name("GPSLongitude")))

\* C8: extract_gps returns a pair only for metadata whose GPSInfo holds a
\* latitude and a longitude that are triples of numbers, and None otherwise.
C8_PairOnlyIfWellFormed ==
    gpsOut # NoCall => (gpsOut.ok => WellFormedGps(gpsIn))

----------------------------------------------------------------------------
(* Claims about Photo.save and process_images_and_exif *)

\* C1: process_images_and_exif has run exactly once on every photo whose
\* original image a save has persisted, and never on any other photo.
C1_ProcessedOncePerOriginal ==
    \A p \in Slots : processCount[p] = (IF everOriginal[p] THEN 1 ELSE 0)

\* C2: once the GPS step has run on a photo, the photo's latitude and
\* longitude are the pair extract_gps returns for its metadata, in that
\* order, and both are absent when extract_gps returns None.
C2_LatitudeLongitudeStored ==
    \A p \in Slots :
        (photo[p] # NoPhoto /\ photo[p].exif # NoneV) =>
            IF extract_gps(photo[p].exif).ok
            THEN /\ photo[p].latitude = Num(extract_gps(photo[p].exif).lat)
                 /\ photo[p].longitude = Num(extract_gps(photo[p].exif).lon)
            ELSE photo[p].latitude = NoneV /\ photo[p].longitude = NoneV

\* C4: when the EXIF step of a save met an exception, the metadata of the
\* photo is the empty dict, on the instance and, once line 187 has written
\* it, in the row.
C4_RaisedExifIsEmpty ==
    (last.op = "save" /\ last.exifRaised) =>
        /\ photo[last.p].exif = EmptyDict
        /\ last.stage = "done" => photoDb[last.p].exif = EmptyDict

\* C6 as the specification states it: a save whose thumbnail failed still
\* stores the large rendition.
C6_LargeStoredWithoutThumbnail ==
    (last.op = "save" /\ last.thumbFailed) =>
        /\ <<last.p, "large">> \in storage
        /\ photo[last.p].large # NoneV

\* C6: a save whose thumbnail could not be generated or stored raises at the
\* thumbnail step; no large rendition is generated or stored, and the row
\* keeps neither a thumbnail nor a large reference.
C6_ThumbnailFailureEndsProcessing ==
    (last.op = "save" /\ last.thumbFailed) =>
        /\ last.raised
        /\ last.stage = "thumbnail"
        /\ photo[last.p].large = NoneV
        /\ <<last.p, "large">> \notin storage
        /\ photoDb[last.p].thumbnail = NoneV
        /\ photoDb[last.p].large = NoneV

\* C6 witness: the first save of a decodable original whose thumbnail failed,
\* the row and the original being stored
C6_Witness ==
    /\ last.op = "save"
    /\ last.thumbFailed
    /\ last.raised
    /\ photoDb[last.p] # NoRow
    /\ Files[photoDb[last.p].original_image.of].decodable
    /\ <<last.p, "original">> \in storage

----------------------------------------------------------------------------
(* Claims about the deletion hook *)

\* C3: the deletion of a photo whose three file fields are populated asks
\* the storage to delete all three files, whatever the storage answers, and
\* removes the row.
C3_AllFilesReleased ==
    (last.op = "delete" /\ last.populated = Variants3) =>
        /\ last.attempted = Variants3
        /\ photoDb[last.p] = NoRow

----------------------------------------------------------------------------
(* Claims about the upload view *)

\* A row with an original image and neither a thumbnail nor a large rendition
Unprocessed(row) ==
    /\ row # NoRow
    /\ Truthy(row.original_image)
    /\ row.thumbnail = NoneV
    /\ row.large = NoneV

\* C10: when decoding an uploaded image or generating its variants raises
\* (the storage and the database working), the exception leaves the view
\* before the remaining files are saved, and the save that raised leaves no
\* row with an original image and without thumbnail and large rendition.
C10_NoUnprocessedRow ==
    (last.op = "upload" /\ last.fail = "none"
        /\ last.stage \in {"open", "thumbnail", "large"}) =>
        /\ last.raised
        /\ last.created < last.requested
        /\ ~Unprocessed(photoDb[last.at])

----------------------------------------------------------------------------
(* Claims about Album.save *)

\* C9: no two rows of the Album table have the same slug; the last save left
\* on the instance the slug it had when that was not empty, and the slugified
\* name otherwise; and a save that did not raise wrote that slug to the row.
C9_SlugKeptDerivedUnique ==
    /\ \A a, b \in AlbumIds :
          (a # b /\ albumDb[a] # NoRow /\ albumDb[b] # NoRow) =>
              albumDb[a].slug # albumDb[b].slug
    /\ lastAlbum.op = "save" =>
          /\ album[lastAlbum.a].slug =
                (IF lastAlbum.before.slug \in {NoneV, Str(<<>>)}
                 THEN Str(slugify(lastAlbum.before.name.s))
                 ELSE lastAlbum.before.slug)
          /\ ~lastAlbum.raised =>
                albumDb[lastAlbum.a].slug = album[lastAlbum.a].slug

\* C9 witness: an album is saved under the slug derived from its name, and the
\* save of another album whose name gives the same slug is refused
C9_Witness ==
    /\ lastAlbum.op = "save"
    /\ lastAlbum.raised
    /\ lastAlbum.before.slug = NoneV
    /\ album[lastAlbum.a].slug = Str(<<"t", "r", "i", "p">>)
    /\ albumDb[lastAlbum.a] = NoRow
    /\ \E b \in AlbumIds \ {lastAlbum.a} :
          /\ albumDb[b] # NoRow
          /\ albumDb[b].slug = Str(<<"t", "r", "i", "p">>)
          /\ albumDb[b].name # lastAlbum.before.name

====
